---- MODULE Spec2Model ----
(***************************************************************************)
(* MD1D: one particle in one dimension, advanced through a confining       *)
(* potential by the velocity-Verlet loop of simulate_particle.             *)
(*                                                                         *)
(* Numbers are exact rationals <<numerator, denominator>> in lowest terms  *)
(* with a positive denominator.  A value the model does not follow is      *)
(* OffScale: a float that is inf or nan (numpy's division by a zero mass), *)
(* or a rational whose numerator or denominator exceeds Limit.  OffScale   *)
(* absorbs every operation, so a tracked value is always the exact one.    *)
(***************************************************************************)
EXTENDS Integers, Sequences, FiniteSets, TLC

VARIABLES
    pc,          \* where main() is: "main", "potential", "particle", "loop",
                 \* "returned", "raised"
    potential,   \* the potential object
    particle,    \* the Particle1D object
    duration,    \* simulate_particle's arguments
    dt,
    time,        \* simulate_particle's locals
    times,
    positions,
    velocities,
    ke,
    pe,
    total_e

vars == <<pc, potential, particle, duration, dt, time, times, positions,
          velocities, ke, pe, total_e>>

\* ------------------------------------------------------------- bounds
\* largest numerator / denominator the exact arithmetic follows
Limit == 30000
\* initial positions and velocities are the integers -MaxCoord..MaxCoord
MaxCoord == 1
\* durations are the integers -1..MaxDuration
MaxDuration == 3
\* a call with dt <= 0 and duration > 0 never leaves the loop: it is followed
\* for this many iterations
MaxStalledSteps == 3

\* ---------------------------------------------------------- arithmetic
OffScale == <<1, 0>>

Tracked(a) == a[2] # 0

IAbs(n) == IF n < 0 THEN -n ELSE n

RECURSIVE GCD(_, _)
GCD(a, b) == IF b = 0 THEN a ELSE GCD(b, a % b)

Norm(n, d) ==
    LET g  == GCD(IAbs(n), IAbs(d))
        nn == (IF d < 0 THEN -n ELSE n) \div g
        dd == IAbs(d) \div g
    IN  IF IAbs(nn) > Limit \/ dd > Limit THEN OffScale ELSE <<nn, dd>>

Q(n, d) == Norm(n, d)

Zero == <<0, 1>>

RAdd(a, b) ==
    IF ~Tracked(a) \/ ~Tracked(b) THEN OffScale
    ELSE Norm(a[1] * b[2] + b[1] * a[2], a[2] * b[2])

RNeg(a) == IF ~Tracked(a) THEN OffScale ELSE <<-a[1], a[2]>>

RSub(a, b) == RAdd(a, RNeg(b))

RMul(a, b) ==
    IF ~Tracked(a) \/ ~Tracked(b) THEN OffScale
    ELSE Norm(a[1] * b[1], a[2] * b[2])

\* a / b; a numpy float divided by zero is inf or nan
RDiv(a, b) ==
    IF ~Tracked(a) \/ ~Tracked(b) \/ b[1] = 0 THEN OffScale
    ELSE Norm(a[1] * b[2], a[2] * b[1])

\* comparisons of tracked values
RLt(a, b) == a[1] * b[2] < b[1] * a[2]

RLe(a, b) == a[1] * b[2] <= b[1] * a[2]

RAbs(a) == IF ~Tracked(a) THEN OffScale ELSE <<IAbs(a[1]), a[2]>>

Positive(a) == Tracked(a) /\ a[1] > 0

\* np.sign
RSign(a) ==
    IF ~Tracked(a) THEN OffScale
    ELSE IF a[1] < 0 THEN <<-1, 1>> ELSE IF a[1] = 0 THEN Zero ELSE <<1, 1>>

Half == Q(1, 2)

Square(a) == RMul(a, a)

\* ---------------------------------------------------------- potentials
NoPotential == [kind |-> "none"]

HarmonicPotential(k, center) == [kind |-> "harmonic", k |-> k, center |-> center]

QuarticPotential(a, center) == [kind |-> "quartic", a |-> a, center |-> center]

BoxPotential(width, center, wall_stiffness) ==
    [kind |-> "box", width |-> width, center |-> center,
     wall_stiffness |-> wall_stiffness, half_width |-> RDiv(width, Q(2, 1))]

\* BoxPotential.__call__
BoxEnergy(pot, x) ==
    LET dx == RAbs(RSub(x, pot.center))
    IN  IF ~Tracked(dx) THEN OffScale
        ELSE IF RLe(dx, pot.half_width) THEN Zero
        ELSE LET overshoot == RSub(dx, pot.half_width)
             IN  RMul(RMul(Half, pot.wall_stiffness), Square(overshoot))

\* BoxPotential.force with the wall force pointing away from the center
BoxForceOutward(pot, x) ==
    LET dx == RSub(x, pot.center)
    IN  IF ~Tracked(dx) THEN OffScale
        ELSE IF RLe(RAbs(dx), pot.half_width) THEN Zero
        ELSE LET sign      == RSign(dx)
                 overshoot == RSub(RAbs(dx), pot.half_width)
             IN  RMul(RMul(sign, pot.wall_stiffness), overshoot)

\* BoxPotential.force
BoxForce(pot, x) ==
    LET dx == RSub(x, pot.center)
    IN  IF ~Tracked(dx) THEN OffScale
        ELSE IF RLe(RAbs(dx), pot.half_width) THEN Zero
        ELSE LET sign      == RSign(dx)
                 overshoot == RSub(RAbs(dx), pot.half_width)
             IN  RMul(RMul(RNeg(sign), pot.wall_stiffness), overshoot)

\* potential(x): the __call__ of the four classes
Energy(pot, x) ==
    CASE pot.kind = "none"     -> Zero
      [] pot.kind = "harmonic" ->
            LET dx == RSub(x, pot.center)
            IN  RMul(RMul(Half, pot.k), Square(dx))
      [] pot.kind = "quartic"  ->
            LET dx == RSub(x, pot.center)
            IN  RMul(pot.a, Square(Square(dx)))
      [] pot.kind = "box"      -> BoxEnergy(pot, x)

\* potential.force(x)
Force(pot, x) ==
    CASE pot.kind = "none"     -> Zero
      [] pot.kind = "harmonic" -> RMul(RNeg(pot.k), RSub(x, pot.center))
      [] pot.kind = "quartic"  ->
            LET dx == RSub(x, pot.center)
            IN  RMul(RMul(Q(-4, 1), pot.a), RMul(Square(dx), dx))
      [] pot.kind = "box"      -> BoxForce(pot, x)

\* The force is a numpy scalar (np.sign made it one, or the position already
\* is one), so that dividing it by a zero mass gives inf or nan and a warning
\* where a Python float raises ZeroDivisionError.
ForceIsNumpy(pot, x) ==
    /\ pot.kind = "box"
    /\ \/ ~Tracked(x)
       \/ ~RLe(RAbs(RSub(x, pot.center)), pot.half_width)

\* ------------------------------------------------------------ particle
Particle1D(position, velocity, mass) ==
    [position |-> position, velocity |-> velocity, mass |-> mass,
     acceleration |-> Zero]

apply_force(p, force) == [p EXCEPT !.acceleration = RDiv(force, p.mass)]

\* update_position that forgets the step size
update_position_unit(p, h) ==
    [p EXCEPT !.position = RAdd(p.position, p.velocity)]

update_position(p, h) ==
    [p EXCEPT !.position = RAdd(p.position, RMul(p.velocity, h))]

update_velocity(p, h) ==
    [p EXCEPT !.velocity = RAdd(p.velocity, RMul(p.acceleration, h))]

\* apply_force raises ZeroDivisionError
Raises(p, pot) == p.mass = Zero /\ ~ForceIsNumpy(pot, p.position)

\* ---------------------------------------------------------- integrator
\* lines 50-55: force, first half kick and drift
KickDrift(p, pot, h) ==
    update_position(
        update_velocity(apply_force(p, Force(pot, p.position)), RDiv(h, Q(2, 1))),
        h)

\* the second half kick with the force left as it was before the drift
KickStale(p, pot, h) == update_velocity(p, RDiv(h, Q(2, 1)))

\* lines 58-60: force at the new position and second half kick
Kick(p, pot, h) ==
    update_velocity(apply_force(p, Force(pot, p.position)), RDiv(h, Q(2, 1)))

\* an explicit Euler step: one full kick, then the drift
EulerStep(p, pot, h) ==
    update_position(update_velocity(apply_force(p, Force(pot, p.position)), h), h)

\* one loop iteration's effect on the particle when nothing raises
VerletStep(p, pot, h) == Kick(KickDrift(p, pot, h), pot, h)

\* 0.5 * particle.mass * particle.velocity**2
Kinetic(p) == RMul(RMul(Half, p.mass), Square(p.velocity))

\* while time <= duration
LoopConditionInclusive(t, d) == RLe(t, d)

\* while time < duration
LoopCondition(t, d) == RLt(t, d)

\* the clock is not advanced
NextTimeStalled(t, h) == t

\* time += dt
NextTime(t, h) == RAdd(t, h)

\* -------------------------------------------------------------- inputs
Coords == {Q(n, 1) : n \in -MaxCoord..MaxCoord}

Masses == {Q(-1, 1), Zero, Q(1, 1), Q(2, 1)}

Centers == {Zero, Q(1, 1)}

SpringConstants == {Zero, Q(2, 1)}

QuarticCoefficients == {Zero, Q(1, 1)}

Widths == {Zero, Q(2, 1)}

Stiffnesses == {Zero, Q(2, 1)}

Durations == {Q(n, 1) : n \in -1..MaxDuration}

TimeSteps == {Q(-1, 1), Zero, Q(1, 2), Q(1, 1), Q(2, 1)}

Unset == [kind |-> "unset"]

\* ------------------------------------------------------------- actions
Init ==
    /\ pc = "main"
    /\ potential = Unset
    /\ particle = Unset
    /\ duration = Zero
    /\ dt = Zero
    /\ time = Zero
    /\ times = <<>>
    /\ positions = <<>>
    /\ velocities = <<>>
    /\ ke = <<>>
    /\ pe = <<>>
    /\ total_e = <<>>

run == <<duration, dt, time, times, positions, velocities, ke, pe, total_e>>

NewNoPotential ==
    /\ pc = "main"
    /\ potential' = NoPotential
    /\ pc' = "potential"
    /\ UNCHANGED <<particle, run>>

NewHarmonicPotential ==
    /\ pc = "main"
    /\ \E k \in SpringConstants, center \in Centers :
          potential' = HarmonicPotential(k, center)
    /\ pc' = "potential"
    /\ UNCHANGED <<particle, run>>

NewQuarticPotential ==
    /\ pc = "main"
    /\ \E a \in QuarticCoefficients, center \in Centers :
          potential' = QuarticPotential(a, center)
    /\ pc' = "potential"
    /\ UNCHANGED <<particle, run>>

NewBoxPotential ==
    /\ pc = "main"
    /\ \E width \in Widths, center \in Centers, wall_stiffness \in Stiffnesses :
          potential' = BoxPotential(width, center, wall_stiffness)
    /\ pc' = "potential"
    /\ UNCHANGED <<particle, run>>

NewParticle ==
    /\ pc = "potential"
    /\ \E position \in Coords, velocity \in Coords, mass \in Masses :
          particle' = Particle1D(position, velocity, mass)
    /\ pc' = "particle"
    /\ UNCHANGED <<potential, run>>

\* simulate_particle up to the loop: the initial sample
SimulateBegin ==
    /\ pc = "particle"
    /\ \E d \in Durations, h \in TimeSteps :
          /\ duration' = d
          /\ dt' = h
    /\ time' = Zero
    /\ times' = <<Zero>>
    /\ positions' = <<particle.position>>
    /\ velocities' = <<particle.velocity>>
    /\ ke' = <<Kinetic(particle)>>
    /\ pe' = <<Energy(potential, particle.position)>>
    /\ total_e' = <<RAdd(Kinetic(particle), Energy(potential, particle.position))>>
    /\ pc' = "loop"
    /\ UNCHANGED <<potential, particle>>

\* one iteration of the loop
SimulateStep ==
    /\ pc = "loop"
    /\ LoopCondition(time, duration)
    /\ IF Positive(dt) THEN TRUE ELSE Len(times) <= MaxStalledSteps
    /\ LET mid == KickDrift(particle, potential, dt)
           new == Kick(mid, potential, dt)
       IN  IF Raises(particle, potential)
           THEN /\ pc' = "raised"
                /\ UNCHANGED <<particle, time, times, positions, velocities,
                               ke, pe, total_e>>
           ELSE IF Raises(mid, potential)
           THEN /\ pc' = "raised"
                /\ particle' = mid
                /\ UNCHANGED <<time, times, positions, velocities, ke, pe, total_e>>
           ELSE /\ particle' = VerletStep(particle, potential, dt)
                /\ time' = NextTime(time, dt)
                /\ times' = Append(times, time')
                /\ positions' = Append(positions, particle'.position)
                /\ velocities' = Append(velocities, particle'.velocity)
                /\ ke' = Append(ke, Kinetic(particle'))
                /\ pe' = Append(pe, Energy(potential, particle'.position))
                /\ total_e' = Append(total_e,
                                     RAdd(Kinetic(particle'),
                                          Energy(potential, particle'.position)))
                /\ pc' = "loop"
    /\ UNCHANGED <<potential, duration, dt>>

\* the loop ends and the arrays are returned
SimulateReturn ==
    /\ pc = "loop"
    /\ ~LoopCondition(time, duration)
    /\ pc' = "returned"
    /\ UNCHANGED <<potential, particle, run>>

Next ==
    \/ NewNoPotential
    \/ NewHarmonicPotential
    \/ NewQuarticPotential
    \/ NewBoxPotential
    \/ NewParticle
    \/ SimulateBegin
    \/ SimulateStep
    \/ SimulateReturn

Spec == Init /\ [][Next]_vars

\* --------------------------------------------------------------- claims
InRun == pc \in {"loop", "returned", "raised"}

Samples == 1..Len(times)

\* both sides are followed exactly and agree, or one of them is off scale
Agree(a, b) == (Tracked(a) /\ Tracked(b)) => a = b

SameLengths ==
    /\ Len(positions) = Len(times)
    /\ Len(velocities) = Len(times)
    /\ Len(ke) = Len(times)
    /\ Len(pe) = Len(times)
    /\ Len(total_e) = Len(times)

AppendsOne ==
    /\ Len(times') = Len(times) + 1
    /\ Len(positions') = Len(positions) + 1
    /\ Len(velocities') = Len(velocities) + 1
    /\ Len(ke') = Len(ke) + 1
    /\ Len(pe') = Len(pe) + 1
    /\ Len(total_e') = Len(total_e) + 1

\* C1: the six recorded sequences always have the same length, a completed
\* loop iteration appends exactly one entry to each of them, and with dt > 0
\* the recorded times strictly increase with the index.
C1_SequencesAligned ==
    /\ [](/\ SameLengths
          /\ (InRun /\ Positive(dt)) =>
                \A i \in Samples : i < Len(times) => RLt(times[i], times[i + 1]))
    /\ [][(pc = "loop" /\ pc' = "loop") => AppendsOne]_vars

C1_Witness ==
    /\ pc = "returned"
    /\ Positive(dt)
    /\ Len(times) >= 4
    /\ SameLengths

\* C2: with dt > 0 and duration > 0 a returned run has taken exactly N steps,
\* N the least n with n * dt >= duration; every sequence holds N + 1 entries
\* and duration <= time[N] < duration + dt.
C2_StepCount ==
    (pc = "returned" /\ Positive(dt) /\ Positive(duration)) =>
        LET N == Len(times) - 1
        IN  /\ N >= 1
            /\ RLe(duration, RMul(Q(N, 1), dt))
            /\ RLt(RMul(Q(N - 1, 1), dt), duration)
            /\ SameLengths
            /\ RLe(duration, times[N + 1])
            /\ RLt(times[N + 1], RAdd(duration, dt))

\* a run whose duration is no multiple of dt: two steps of 2 for a duration of 3
C2_Witness ==
    /\ pc = "returned"
    /\ dt = Q(2, 1)
    /\ duration = Q(3, 1)
    /\ Len(times) = 3
    /\ times[3] = Q(4, 1)

\* C3: with duration <= 0 no step is taken: the returned sequences hold the
\* one initial sample (time 0, the particle's position and velocity, the
\* energies computed from them) and the particle is as it was constructed.
C3_NoStepForNonPositiveDuration ==
    (pc = "returned" /\ RLe(duration, Zero)) =>
        /\ Len(times) = 1
        /\ SameLengths
        /\ times[1] = Zero
        /\ positions[1] = particle.position
        /\ velocities[1] = particle.velocity
        /\ particle.position \in Coords
        /\ particle.velocity \in Coords
        /\ particle.acceleration = Zero
        /\ ke[1] = RMul(RMul(Half, particle.mass),
                        RMul(particle.velocity, particle.velocity))
        /\ pe[1] = Energy(potential, particle.position)
        /\ total_e[1] = RAdd(ke[1], pe[1])

C3_Witness ==
    /\ pc = "returned"
    /\ RLt(duration, Zero)
    /\ Positive(dt)
    /\ potential.kind = "harmonic"
    /\ Len(times) = 1
    /\ Positive(ke[1])
    /\ Positive(pe[1])

ValidConfiguration ==
    /\ Positive(particle.mass)
    /\ potential.kind = "harmonic" => Positive(potential.k)
    /\ potential.kind = "quartic" => Positive(potential.a)
    /\ potential.kind = "box" =>
          Positive(potential.width) /\ Positive(potential.wall_stiffness)

\* C4: an invalid configuration (mass <= 0, or a non-positive k, a, width or
\* wall_stiffness) is rejected at construction: no run is started for it, so
\* no sample is recorded and apply_force never divides by a mass <= 0.
C4_InvalidConfigurationRejected == InRun => ValidConfiguration

\* C5: a call with dt <= 0 is rejected before the loop starts: the loop is
\* never about to take a step that does not advance the time.
C5_NonPositiveDtRejected ==
    (pc = "loop" /\ LoopCondition(time, duration)) => Positive(dt)

\* C6: with NoPotential, mass > 0 and dt > 0 every recorded sample i has
\* velocity[i] = velocity[0] and position[i] = position[0] + velocity[0] *
\* time[i], and the particle's acceleration is 0.
C6_FreeParticle ==
    (InRun /\ potential.kind = "none" /\ Positive(particle.mass) /\ Positive(dt)) =>
        /\ \A i \in Samples :
              /\ velocities[i] = velocities[1]
              /\ positions[i] = RAdd(positions[1], RMul(velocities[1], times[i]))
        /\ particle.acceleration = Zero

C6_Witness ==
    /\ pc = "returned"
    /\ potential.kind = "none"
    /\ particle.mass = Q(2, 1)
    /\ dt = Q(2, 1)
    /\ Len(times) = 3
    /\ velocities[1] = Q(-1, 1)
    /\ positions[3] = RAdd(positions[1], Q(-4, 1))

\* points on, just inside and just outside each wall of the box
BoxProbes(pot) ==
    {RAdd(pot.center, RMul(side, RAdd(pot.half_width, e))) :
        side \in {Q(-1, 1), Q(1, 1)},
        e \in {Q(-1, 2), Q(-1, 100), Zero, Q(1, 100), Q(1, 2)}}

\* at x the box's energy u and force f are both 0 when |x - center| <= width/2,
\* else u > 0 and f is non-zero and points back to the center
BoxInsideOutside(pot, x, u, f) ==
    LET dx == RSub(x, pot.center)
    IN  (Tracked(dx) /\ Tracked(u) /\ Tracked(f)) =>
            IF RLe(RAbs(dx), RDiv(pot.width, Q(2, 1)))
            THEN u = Zero /\ f = Zero
            ELSE /\ Positive(u)
                 /\ f # Zero
                 /\ RSign(f) = RNeg(RSign(dx))

\* C7: for a box of width > 0 and wall_stiffness > 0, at every recorded
\* position x and at every probe point x around the walls: if
\* |x - center| <= width / 2 (the boundary included) the potential energy and
\* the force are exactly 0; otherwise the potential energy is > 0 and the
\* force is non-zero with the sign opposite to x - center.
C7_BoxBoundaryInside ==
    (InRun /\ potential.kind = "box" /\ Positive(potential.width)
           /\ Positive(potential.wall_stiffness)) =>
        /\ \A i \in Samples :
              BoxInsideOutside(potential, positions[i], pe[i],
                               Force(potential, positions[i]))
        /\ \A x \in BoxProbes(potential) :
              /\ Tracked(Energy(potential, x)) /\ Tracked(Force(potential, x))
              /\ BoxInsideOutside(potential, x, Energy(potential, x),
                                  Force(potential, x))

\* a run that recorded a position exactly on the wall and one beyond it
C7_Witness ==
    /\ InRun
    /\ potential.kind = "box"
    /\ Positive(potential.width)
    /\ Positive(potential.wall_stiffness)
    /\ \E i \in Samples, j \in Samples :
          /\ Tracked(positions[i]) /\ Tracked(positions[j])
          /\ RAbs(RSub(positions[i], potential.center)) = potential.half_width
          /\ pe[i] = Zero
          /\ RLt(potential.half_width, RAbs(RSub(positions[j], potential.center)))
          /\ Positive(pe[j])

\* the sample the claim's formulas give after (x, v)
KickDriftKick(x, v, m, pot, h) ==
    LET a0 == RDiv(Force(pot, x), m)
        x1 == RAdd(x, RMul(RAdd(v, RDiv(RMul(a0, h), Q(2, 1))), h))
        a1 == RDiv(Force(pot, x1), m)
        v1 == RAdd(v, RDiv(RMul(RAdd(a0, a1), h), Q(2, 1)))
    IN  [position |-> x1, velocity |-> v1, acceleration |-> a1]

\* C9: consecutive samples (x, v), (x', v') satisfy
\* x' = x + (v + F(x)/m * dt/2) * dt and v' = v + (F(x)/m + F(x')/m) * dt/2,
\* and after a step the acceleration is F(x')/m for the recorded x'.
C9_KickDriftKick ==
    InRun =>
        /\ \A i \in Samples : i < Len(times) =>
              LET s == KickDriftKick(positions[i], velocities[i], particle.mass,
                                     potential, dt)
              IN  /\ Agree(positions[i + 1], s.position)
                  /\ Agree(velocities[i + 1], s.velocity)
        /\ (Len(times) >= 2 /\ pc # "raised") =>
              /\ particle.position = positions[Len(times)]
              /\ particle.velocity = velocities[Len(times)]
              /\ Agree(particle.acceleration,
                       RDiv(Force(potential, positions[Len(times)]), particle.mass))

C9_Witness ==
    /\ pc = "returned"
    /\ potential.kind = "harmonic"
    /\ potential.k = Q(2, 1)
    /\ particle.mass = Q(2, 1)
    /\ dt = Q(1, 2)
    /\ Len(times) = 5
    /\ \A i \in Samples : Tracked(positions[i]) /\ Tracked(velocities[i])
    /\ positions[1] = Q(1, 1)
    /\ velocities[1] = Zero
    /\ positions[2] = Q(7, 8)
    /\ particle.acceleration # Zero

Flip(p) == [p EXCEPT !.velocity = RNeg(p.velocity)]

RECURSIVE StepN(_, _, _, _)
StepN(p, pot, h, n) == IF n = 0 THEN p ELSE StepN(VerletStep(p, pot, h), pot, h, n - 1)

\* C10: with mass > 0 and dt > 0, one step, a velocity flip and one more step
\* lead back to the same position with the negated velocity; and flipping the
\* velocity after the n recorded steps and taking n more steps leads back to
\* the initial position with the negated initial velocity.
C10_TimeReversible ==
    (InRun /\ pc # "raised" /\ Positive(particle.mass) /\ Positive(dt)) =>
        /\ LET back == VerletStep(Flip(VerletStep(particle, potential, dt)),
                                  potential, dt)
           IN  (Tracked(back.position) /\ Tracked(back.velocity)) =>
                   /\ back.position = particle.position
                   /\ back.velocity = RNeg(particle.velocity)
        /\ LET back == StepN(Flip(particle), potential, dt, Len(times) - 1)
           IN  (Tracked(back.position) /\ Tracked(back.velocity)) =>
                   /\ back.position = positions[1]
                   /\ back.velocity = RNeg(velocities[1])

C10_Witness ==
    /\ pc = "returned"
    /\ potential.kind = "quartic"
    /\ potential.a = Q(1, 1)
    /\ Positive(particle.mass)
    /\ Positive(dt)
    /\ Len(times) = 3
    /\ velocities[1] # Zero
    /\ particle.position # positions[1]
    /\ LET back == StepN(Flip(particle), potential, dt, 2)
       IN  /\ Tracked(back.position) /\ Tracked(back.velocity)
           /\ back.position = positions[1]

====
